---- MODULE Spec2Model ----
(***************************************************************************)
(* A model of maps.py (FastCAM saliency maps): the gradient-weighted       *)
(* orchestrator FastCAM (construction, capture hooks, the single-example   *)
(* call) and the map combiner CombineSaliencyMaps.                         *)
(*                                                                         *)
(* Tensors captured by a hook are represented in the orchestrator          *)
(* specifications by the number of the classifier pass that produced them  *)
(* (0: the hook's slot still holds None).  Every hooked module runs in     *)
(* every pass.  The combiner is modelled with resize_mode = 'bilinear' and *)
(* with maps of batch size 1; Python 3 semantics throughout.               *)
(***************************************************************************)
EXTENDS Integers, Sequences, FiniteSets, TLC

VARIABLES
    orch,       \* the FastCAM objects: configuration, capability flags, hook lists
    observers,  \* per classifier: the observers registered on its modules, in order
    call,       \* per caller: the position and the locals of its FastCAM.__call__
    passes,     \* the tensors the classifier's layers gave in each pass so far
    combiner,   \* the CombineSaliencyMaps object
    runs,       \* the calls of CombineSaliencyMaps.forward made so far, in order
    pool        \* a call of FastCAM._magnitude_pool2d: its arguments and its result

fcvars == <<orch, observers, call, passes>>
cbvars == <<combiner, runs>>
vars == <<orch, observers, call, passes, combiner, runs, pool>>

(***************************************************************************)
(* Bounds of the model.                                                    *)
(***************************************************************************)
MaxLayers == 2      \* longest layer list handed to a constructor
MaxBatch  == 2      \* largest batch size of an input
MaxPasses == 2      \* forward passes run in one behaviour
MaxMapNum == 2      \* largest map_num of a combiner, longest list of maps combined

(***************************************************************************)
(* Input domains.                                                          *)
(***************************************************************************)
Methods       == {"V0", "V1", "V2", "V3", "V4", "V5", "V6"}
\* "V7" stands for any string outside V0..V6, NotAStr for a non-string argument
NotAStr       == "<not a str>"
MethodArgs    == Methods \cup {"V7", NotAStr}
\* the classifier's modules, and a name that is no key of model._modules
ModuleNames   == {"layer1", "layer2"}
LayerArgs     == ModuleNames \cup {"nolayer"}
GradPoolings  == {"None", "avg", "max", "mag"}

\* the sequences over S of length at most n
SeqsUpTo(S, n) == UNION {[1..k -> S] : k \in 0..n}

LayerLists == SeqsUpTo(LayerArgs, MaxLayers)

(***************************************************************************)
(* Tensors have the axes channel, row, column (the batch axis, of size 1,  *)
(* is left out).  A pass of the classifier gives, for the hooked layers,   *)
(* an activation tensor and a gradient tensor of the same shape, and the   *)
(* row of logits.                                                          *)
(***************************************************************************)
TensorVals == {-1, 2}
TensorShapes == {<<1, 1, 2>>}
TensorsOfShape(sh) == [1..sh[1] -> [1..sh[2] -> [1..sh[3] -> TensorVals]]]
AllTensors == UNION {TensorsOfShape(sh) : sh \in TensorShapes}
AllPasses == {[activations |-> a, gradients |-> g, logit |-> <<2, 1>>] :
                 a, g \in AllTensors}
\* the pass of the specifications that do not look at the tensors' entries
UnitPass == [activations |-> <<<<<<2>>>>>>, gradients |-> <<<<<<2>>>>>>, logit |-> <<2, 1>>]
\* the logit rows of a single example over two classes, and the class_idx argument:
\* 0 stands for None, 3 for an index past the last class
LogitVecs == {<<2, 1>>, <<1, 2>>, <<2, 2>>}
ClassArgs == {0, 1, 2, 3}
OrderPasses == {[UnitPass EXCEPT !.logit = l] : l \in LogitVecs}

\* no call of _magnitude_pool2d made
NoPool == [x |-> <<>>, pos_max |-> FALSE, m |-> <<>>, done |-> FALSE]

(***************************************************************************)
(* misc.CaptureLayerOutput / CaptureGradInput / CaptureGradOutput: a hook  *)
(* object holds the most recent tensor handed to it in a single slot.      *)
(***************************************************************************)
NewHook(kind, layer) == [kind |-> kind, layer |-> layer, data |-> 0]

Capture(h, p) == [h EXCEPT !.data = p]

(***************************************************************************)
(* FastCAM.__init__                                                        *)
(***************************************************************************)
NoOrch == [state |-> "none", err |-> "", model |-> 0, method |-> "", layers |-> <<>>,
           use_gpp |-> FALSE, grad_pooling |-> "None", pos_neg_map |-> FALSE,
           forward |-> FALSE, backward |-> FALSE,
           activation_hooks |-> <<>>, gradient_hooks |-> <<>>]

\* faulty variant: the V0 case of line 466 forgotten
BackwardFlag_always(method) == TRUE

\* self.backward after lines 454, 466-467
BackwardFlag(method) == method /= "V0"

\* faulty variant: the V5 case of line 468 forgotten
ForwardFlag_always(method) == TRUE

\* self.forward after lines 453, 468-469
ForwardFlag(method) == method /= "V5"

\* the capture class of a gradient hook, lines 479-482
GradHookKind(method) ==
    IF method \in {"V6", "V5", "V4", "V3"} THEN "CaptureGradInput" ELSE "CaptureGradOutput"

\* number of leading layers of the list that are modules of the classifier:
\* model._modules[l] raises KeyError at the first one that is not
RECURSIVE Registrable(_)
Registrable(layers) ==
    IF layers = <<>> \/ Head(layers) \notin ModuleNames THEN 0
    ELSE 1 + Registrable(Tail(layers))

\* the hooks one registration loop creates before it finishes or raises
HooksFor(kind, layers) ==
    [i \in 1..Registrable(layers) |-> NewHook(kind, layers[i])]

\* the observers one registration loop leaves on the classifier
ObserversFor(dir, o, layers) ==
    [i \in 1..Registrable(layers) |-> [dir |-> dir, owner |-> o, idx |-> i]]

FastCAM_init(o, m, layers, method, use_gpp, grad_pooling, pos_neg_map) ==
    /\ orch[o].state = "none"
    /\ IF method = NotAStr
       THEN \* assert(isinstance(method, str))
            /\ orch' = [orch EXCEPT ![o] = [NoOrch EXCEPT !.state = "raised",
                                                         !.err = "AssertionError"]]
            /\ UNCHANGED observers
       ELSE LET fwd  == ForwardFlag(method)
                bwd  == BackwardFlag(method)
                ok   == Registrable(layers) = Len(layers)
                ah   == IF fwd THEN HooksFor("CaptureLayerOutput", layers) ELSE <<>>
                \* the backward loop is reached only if the forward loop did not raise
                gh   == IF bwd /\ (ok \/ ~fwd) THEN HooksFor(GradHookKind(method), layers)
                        ELSE <<>>
                fobs == IF fwd THEN ObserversFor("forward", o, layers) ELSE <<>>
                bobs == IF bwd /\ (ok \/ ~fwd) THEN ObserversFor("backward", o, layers)
                        ELSE <<>>
                made == [state |-> "alive", err |-> "", model |-> m, method |-> method,
                         layers |-> layers, use_gpp |-> use_gpp,
                         grad_pooling |-> grad_pooling, pos_neg_map |-> pos_neg_map,
                         forward |-> fwd, backward |-> bwd,
                         activation_hooks |-> ah, gradient_hooks |-> gh]
            IN  /\ observers' = [observers EXCEPT ![m] = @ \o fobs \o bobs]
                /\ orch' = [orch EXCEPT ![o] =
                              IF ok THEN made
                              ELSE \* the constructor raised: no object, its hooks stay
                                   [NoOrch EXCEPT !.state = "raised", !.err = "KeyError",
                                                  !.model = m,
                                                  !.activation_hooks = ah,
                                                  !.gradient_hooks = gh]]
    /\ UNCHANGED <<call, passes>>
    /\ UNCHANGED cbvars
    /\ UNCHANGED pool

(***************************************************************************)
(* FastCAM.__call__                                                        *)
(***************************************************************************)
IdleCall == [pc |-> "idle", o |-> 0, b |-> 0, invert |-> FALSE, pass |-> 0, i |-> 0,
             saliency_maps |-> <<>>, err |-> "", alone |-> TRUE,
             class_idx |-> 0, ops |-> <<>>]

Finished(c) == call[c].pc \in {"idle", "returned", "raised"}

\* number of classifier forward passes run so far
npass == Len(passes)

\* a pass of classifier m: every observer of direction dir registered on m is
\* invoked and its hook keeps the tensor of pass p
RunObservers(oo, m, dir, p) ==
    LET fires(o, d, i) == \E k \in DOMAIN observers[m] :
                              observers[m][k] = [dir |-> d, owner |-> o, idx |-> i]
    IN  [o \in DOMAIN oo |->
           [oo[o] EXCEPT
              !.activation_hooks = [i \in DOMAIN @ |->
                  IF dir = "forward" /\ fires(o, "forward", i) THEN Capture(@[i], p) ELSE @[i]],
              !.gradient_hooks = [i \in DOMAIN @ |->
                  IF dir = "backward" /\ fires(o, "backward", i) THEN Capture(@[i], p) ELSE @[i]]]]

\* lines 534-540: grad mode, input.size(), model.eval(), logit = self.model(input);
\* ops is the sequence of operations the call has performed on the classifier and
\* on the hooks
Call_forward(c, o, b, invert, t, class_idx) ==
    /\ Finished(c)
    /\ orch[o].state = "alive"
    /\ npass < MaxPasses
    /\ passes' = Append(passes, t)
    /\ orch' = RunObservers(orch, orch[o].model, "forward", npass + 1)
    /\ LET busy == {d \in DOMAIN call \ {c} :
                       ~Finished(d) /\ orch[call[d].o].model = orch[o].model}
       IN  call' = [d \in DOMAIN call |->
                      IF d = c THEN [IdleCall EXCEPT !.pc = "forward_done", !.o = o, !.b = b,
                                                     !.invert = invert, !.pass = npass + 1,
                                                     !.alone = (busy = {}),
                                                     !.class_idx = class_idx,
                                                     !.ops = <<[op |-> "set_grad_enabled",
                                                                arg |-> IF orch[o].backward
                                                                        THEN 1 ELSE 0],
                                                               [op |-> "eval", arg |-> 0],
                                                               [op |-> "forward",
                                                                arg |-> npass + 1]>>]
                      ELSE IF d \in busy THEN [call[d] EXCEPT !.alone = FALSE]
                      ELSE call[d]]
    /\ UNCHANGED observers
    /\ UNCHANGED cbvars
    /\ UNCHANGED pool

\* faulty variant: the backward pass of line 496 run only while the gradient hooks are empty
_forward_bsize_1_once(c) ==
    /\ orch' = IF /\ orch[call[c].o].backward
                  /\ \A i \in DOMAIN orch[call[c].o].gradient_hooks :
                         orch[call[c].o].gradient_hooks[i].data = 0
               THEN RunObservers(orch, orch[call[c].o].model, "backward", call[c].pass)
               ELSE orch
    /\ call' = [call EXCEPT ![c].pc = "layers", ![c].i = 1]

\* lines 489-492: the classes whose logit may become the score: the given index
\* (none if it is past the last class: IndexError), else an index of a largest
\* logit (logit.max(1) returns one of them)
ScoreClasses(l, class_idx) ==
    IF class_idx = 0 THEN {k \in DOMAIN l : \A j \in DOMAIN l : l[k] >= l[j]}
    ELSE IF class_idx \in DOMAIN l THEN {class_idx}
    ELSE {}

\* faulty variant: the backward pass without the zero_grad() of line 495
_forward_bsize_1_nozero(c) ==
    \E k \in ScoreClasses(passes[call[c].pass].logit, 0) :
        /\ orch' = IF orch[call[c].o].backward
                   THEN RunObservers(orch, orch[call[c].o].model, "backward", call[c].pass)
                   ELSE orch
        /\ call' = [call EXCEPT ![c].pc = "layers", ![c].i = 1,
                                ![c].ops = IF orch[call[c].o].backward
                                           THEN @ \o <<[op |-> "backward", arg |-> k]>>
                                           ELSE @]

\* lines 487-496: the score is selected; with backward capture, zero_grad() and
\* score.backward() run the classifier's backward observers on the graph of this
\* call's forward pass
_forward_bsize_1(c) ==
    LET ks == ScoreClasses(passes[call[c].pass].logit, call[c].class_idx)
    IN  IF ks = {}
        THEN /\ call' = [call EXCEPT ![c].pc = "raised", ![c].err = "IndexError"]
             /\ UNCHANGED orch
        ELSE \E k \in ks :
               /\ orch' = IF orch[call[c].o].backward
                          THEN RunObservers(orch, orch[call[c].o].model, "backward",
                                            call[c].pass)
                          ELSE orch
               /\ call' = [call EXCEPT ![c].pc = "layers", ![c].i = 1,
                                       ![c].ops = IF orch[call[c].o].backward
                                                  THEN @ \o <<[op |-> "zero_grad", arg |-> 0],
                                                              [op |-> "backward", arg |-> k]>>
                                                  ELSE @]

\* faulty variant: the stub called as declared, without arguments: it passes
_forward_bsize_N_pass(c) ==
    /\ call' = [call EXCEPT ![c].pc = "layers", ![c].i = 1]
    /\ UNCHANGED orch

\* lines 498-500, called with three arguments at line 545: the call itself raises
_forward_bsize_N(c) ==
    /\ call' = [call EXCEPT ![c].pc = "raised", ![c].err = "TypeError"]
    /\ UNCHANGED orch

\* lines 542-545
Call_backward(c) ==
    /\ call[c].pc = "forward_done"
    /\ IF call[c].b = 1 THEN _forward_bsize_1(c) ELSE _forward_bsize_N(c)
    /\ UNCHANGED <<observers, passes>>
    /\ UNCHANGED cbvars
    /\ UNCHANGED pool

\* the captures the variant's branch of lines 602-632 refers to
UsesGradients(method)   == method \in {"V1", "V2", "V3", "V4", "V5", "V6"}
UsesActivations(method) == method \in {"V0", "V1", "V2", "V3", "V4"}

\* faulty variant: an inverted call without gradients goes on as if there were none
LayerBody_lenient(oc, i, invert) ==
    LET g == IF oc.backward THEN oc.gradient_hooks[i].data ELSE 0
        a == IF oc.forward THEN oc.activation_hooks[i].data ELSE 0
    IN  [err |-> IF oc.method \notin Methods THEN "UnboundLocalError" ELSE "",
         map |-> [gradients |-> g, activations |-> a]]

\* one iteration of the loop over the layers, lines 549-663: the error it raises
\* ("" if none) and the map it appends, named by the passes whose tensors the
\* iteration read from the hooks (0: the local variable was never assigned)
LayerBody(oc, i, invert) ==
    LET g == IF oc.backward THEN oc.gradient_hooks[i].data ELSE 0
        a == IF oc.forward THEN oc.activation_hooks[i].data ELSE 0
        err == IF oc.backward /\ g = 0 THEN "AttributeError"        \* None.size(), line 553
               ELSE IF oc.forward /\ a = 0 THEN "AttributeError"    \* None.size(), line 574
               ELSE IF invert /\ ~oc.backward THEN "UnboundLocalError" \* gradients, line 584
               ELSE IF \/ UsesGradients(oc.method) /\ ~oc.backward  \* lines 608-632
                       \/ UsesActivations(oc.method) /\ ~oc.forward
                    THEN "UnboundLocalError"
               ELSE IF oc.method \notin Methods THEN "UnboundLocalError" \* saliency_map, line 651
               ELSE ""
    IN  [err |-> err, map |-> [gradients |-> g, activations |-> a]]

\* the reads of the hooks' slots in one iteration: line 552, and line 573 unless
\* line 553 has raised
LayerReads(oc, i) ==
    (IF oc.backward THEN <<[op |-> "read_gradients", arg |-> i]>> ELSE <<>>)
    \o (IF oc.forward /\ ~(oc.backward /\ oc.gradient_hooks[i].data = 0)
        THEN <<[op |-> "read_activations", arg |-> i]>> ELSE <<>>)

Call_layer(c) ==
    /\ call[c].pc = "layers"
    /\ call[c].i <= Len(orch[call[c].o].layers)
    /\ LET r == LayerBody(orch[call[c].o], call[c].i, call[c].invert)
           ops == call[c].ops \o LayerReads(orch[call[c].o], call[c].i)
       IN  call' = IF r.err /= ""
                   THEN [call EXCEPT ![c].pc = "raised", ![c].err = r.err, ![c].ops = ops]
                   ELSE [call EXCEPT ![c].i = @ + 1,
                                     ![c].saliency_maps = Append(@, r.map),
                                     ![c].ops = ops]
    /\ UNCHANGED <<orch, observers, passes>>
    /\ UNCHANGED cbvars
    /\ UNCHANGED pool

\* line 665
Call_return(c) ==
    /\ call[c].pc = "layers"
    /\ call[c].i > Len(orch[call[c].o].layers)
    /\ call' = [call EXCEPT ![c].pc = "returned"]
    /\ UNCHANGED <<orch, observers, passes>>
    /\ UNCHANGED cbvars
    /\ UNCHANGED pool

(***************************************************************************)
(* The caller drops its last reference to a FastCAM object.  The class has *)
(* no __del__ and no close method, and the handles that                    *)
(* register_forward_hook / register_backward_hook return are thrown away   *)
(* at lines 474 and 484: nothing of the object's code runs, and the        *)
(* classifier keeps its observers (and through them the hook objects).     *)
(***************************************************************************)
FastCAM_discard(o) ==
    /\ orch[o].state = "alive"
    /\ \A c \in DOMAIN call : call[c].o = o => Finished(c)
    /\ orch' = [orch EXCEPT ![o].state = "discarded"]
    /\ UNCHANGED <<observers, call, passes>>
    /\ UNCHANGED cbvars
    /\ UNCHANGED pool

(***************************************************************************)
(* Arithmetic on maps.  A map is a sequence of rows of integers (the batch *)
(* axis, of size 1, is left out).  Results of resizing and of the          *)
(* normalising division are exact rationals <<n, d>> in lowest terms with  *)
(* d > 0; a division by zero gives <<1, 0>>, <<-1, 0>> or <<0, 0>> (the    *)
(* floats inf, -inf, nan).                                                 *)
(***************************************************************************)
Abs(n) == IF n < 0 THEN -n ELSE n
Sign(n) == IF n < 0 THEN -1 ELSE IF n > 0 THEN 1 ELSE 0
Max2(a, b) == IF a >= b THEN a ELSE b
Min2(a, b) == IF a <= b THEN a ELSE b

RECURSIVE GCD(_, _)
GCD(a, b) == IF b = 0 THEN a ELSE GCD(b, a % b)

Rat(n, d) ==
    IF d = 0 THEN <<Sign(n), 0>>
    ELSE LET g == GCD(Abs(n), Abs(d))
             s == IF d < 0 THEN -1 ELSE 1
         IN  <<(s * n) \div g, (s * d) \div g>>

\* F.relu of a rational: negatives (and -inf) become 0
RatRelu(q) == IF q[1] < 0 THEN <<0, 1>> ELSE q

Height(m) == Len(m)
Width(m) == Len(m[1])

\* one axis of nn.functional.interpolate(mode='bilinear', align_corners=False):
\* output position d (from 0) reads the source coordinate
\* max(0, (d + 0.5) * I / O - 0.5); the result is scaled by 2 * O
Bilinear1D(x, O) ==
    LET I == Len(x)
    IN  [d1 \in 1..O |->
            LET n  == Max2(0, (2 * (d1 - 1) + 1) * I - O)
                i0 == n \div (2 * O)
                l1 == n % (2 * O)
                i1 == Min2(i0 + 1, I - 1)
            IN  (2 * O - l1) * x[i0 + 1] + l1 * x[i1 + 1]]

\* the map resized to size = <<OH, OW>>, scaled by ResizeScale(size)
Resize2D(m, size) ==
    LET rows == [r \in 1..Height(m) |-> Bilinear1D(m[r], size[2])]
    IN  [r \in 1..size[1] |->
            [c \in 1..size[2] |->
                Bilinear1D([k \in 1..Height(m) |-> rows[k][c]], size[1])[r]]]

ResizeScale(size) == (2 * size[1]) * (2 * size[2])

(***************************************************************************)
(* CombineSaliencyMaps                                                     *)
(***************************************************************************)
MapVals     == {-1, 2}
WeightVals  == {-1, 1, 2}
MapShapes   == {<<1, 2>>}
OutputSizes == {<<0, 1>>, <<1, 1>>, <<2, 4>>}

MapsOfShape(sh) == [1..sh[1] -> [1..sh[2] -> MapVals]]
AllMaps == UNION {MapsOfShape(sh) : sh \in MapShapes}
SmapLists == SeqsUpTo(AllMaps, MaxMapNum)

\* the weights argument: None, a Python number, a list, or a one-element tensor
WeightArgs ==
    {[type |-> "None", val |-> <<>>]}
    \cup {[type |-> "float", val |-> <<w>>] : w \in WeightVals}
    \cup {[type |-> "tensor", val |-> <<w>>] : w \in WeightVals}
    \cup {[type |-> "list", val |-> s] : s \in SeqsUpTo(WeightVals, MaxMapNum)}

NoCombiner == [state |-> "none", err |-> "", output_size |-> <<>>, map_num |-> 0,
               weights_arg |-> [type |-> "None", val |-> <<>>],
               weights |-> <<>>, weight_sum |-> 0,
               magnitude |-> FALSE, do_relu |-> FALSE]

RECURSIVE SumSeq(_)
SumSeq(s) == IF s = <<>> THEN 0 ELSE Head(s) + SumSeq(Tail(s))

\* lines 274-281: the error the weights argument raises ("" if none)
WeightsError(weights, map_num) ==
    IF weights.type = "None" THEN ""
    ELSE IF weights.type = "float" THEN "TypeError"            \* len(weights), line 276
    ELSE IF Len(weights.val) = 1
         THEN IF weights.type = "list" THEN "TypeError"        \* [w] > 0, line 277
              ELSE IF weights.val[1] > 0 THEN "" ELSE "AssertionError"
    ELSE IF Len(weights.val) = map_num THEN "" ELSE "AssertionError"  \* line 280

\* lines 274-281: self.weights
WeightsList(weights, map_num) ==
    IF weights.type = "None" THEN [i \in 1..map_num |-> 1]
    ELSE IF Len(weights.val) = 1 THEN [i \in 1..map_num |-> weights.val[1]]
    ELSE weights.val

CombineSaliencyMaps_init(output_size, map_num, weights, magnitude, do_relu) ==
    /\ combiner.state = "none"
    /\ LET err == IF output_size[1] <= 0 \/ output_size[2] <= 0 \/ map_num <= 0
                  THEN "AssertionError"                          \* lines 265-267
                  ELSE WeightsError(weights, map_num)
           args == [NoCombiner EXCEPT !.output_size = output_size, !.map_num = map_num,
                                      !.weights_arg = weights, !.magnitude = magnitude,
                                      !.do_relu = do_relu]
       IN  combiner' = IF err /= ""
                       THEN [args EXCEPT !.state = "raised", !.err = err]
                       ELSE [args EXCEPT !.state = "alive",
                                         !.weights = WeightsList(weights, map_num),
                                         !.weight_sum = SumSeq(WeightsList(weights, map_num))]
    /\ UNCHANGED runs
    /\ UNCHANGED fcvars
    /\ UNCHANGED pool

\* faulty variant: the squaring of line 326 left out
ResizedMap_plain(cb, m) == Resize2D(m, cb.output_size)

\* lines 316-317 and 324-326: one map resized and, in magnitude mode, squared
ResizedMap(cb, m) ==
    LET w == Resize2D(m, cb.output_size)
    IN  IF cb.magnitude
        THEN [r \in DOMAIN w |-> [c \in DOMAIN w[r] |-> LET x == w[r][c] IN x * x]]
        ELSE w

\* the scale of the entries of ResizedMap
MapScale(cb) ==
    IF cb.magnitude THEN ResizeScale(cb.output_size) * ResizeScale(cb.output_size)
    ELSE ResizeScale(cb.output_size)

\* lines 301-340: the error raised ("" if none), the combined map cm and the
\* stacked resized maps ww
forward(cb, smaps) ==
    IF Len(smaps) /= cb.map_num
    THEN [err |-> "AssertionError", cm |-> <<>>, ww |-> <<>>]   \* line 302
    ELSE LET ws == [i \in DOMAIN smaps |-> ResizedMap(cb, smaps[i])]
             acc == [r \in 1..cb.output_size[1] |-> [c \in 1..cb.output_size[2] |->
                       SumSeq([i \in DOMAIN smaps |-> ws[i][r][c] * cb.weights[i]])]]
             post(q) == IF cb.do_relu THEN RatRelu(q) ELSE q
         IN  [err |-> "",
              cm |-> [r \in DOMAIN acc |-> [c \in DOMAIN acc[r] |->
                        post(Rat(acc[r][c], MapScale(cb) * cb.weight_sum))]],
              ww |-> [i \in DOMAIN ws |-> [r \in DOMAIN ws[i] |-> [c \in DOMAIN ws[i][r] |->
                        post(Rat(ws[i][r][c], MapScale(cb)))]]]]

CombineSaliencyMaps_forward(smaps) ==
    /\ combiner.state = "alive"
    /\ Len(runs) < 2
    /\ runs' = Append(runs, [smaps |-> smaps] @@ forward(combiner, smaps))
    /\ UNCHANGED combiner
    /\ UNCHANGED fcvars
    /\ UNCHANGED pool

\* the list with the maps at the positions in S replaced by their negation
Negated(smaps, S) ==
    [i \in DOMAIN smaps |->
        IF i \in S THEN [r \in DOMAIN smaps[i] |-> [c \in DOMAIN smaps[i][r] |->
                            -smaps[i][r][c]]]
        ELSE smaps[i]]

(***************************************************************************)
(* The tensors of one iteration of the loop over the layers.  A tensor is  *)
(* [op |-> "tensor", den, v]: the integer entries v divided by den.  The   *)
(* float-valued functions (the second-order correction, the estimator, the *)
(* normalizer, and a variant applied to a corrected gradient) are kept as  *)
(* terms [op |-> name, ...] over the tensors they are applied to: equal    *)
(* terms are equal results.                                                *)
(***************************************************************************)
Unbound == [op |-> "unbound"]
Leaf(den, v) == [op |-> "tensor", den |-> den, v |-> v]
IsLeaf(x) == x.op = "tensor"

Rows(v) == Len(v[1])
Cols(v) == Len(v[1][1])

MapT(v, f(_)) ==
    [k \in DOMAIN v |-> [r \in DOMAIN v[k] |-> [c \in DOMAIN v[k][r] |-> f(v[k][r][c])]]]

\* F.relu
Relu(x) ==
    IF IsLeaf(x) THEN Leaf(x.den, MapT(x.v, LAMBDA e : Max2(e, 0)))
    ELSE [op |-> "relu", x |-> x]

\* multiplication by -1
Neg(x) ==
    IF IsLeaf(x) THEN Leaf(x.den, MapT(x.v, LAMBDA e : -e))
    ELSE [op |-> "neg", x |-> x]

\* kernel_size=2, stride=2, padding=0, ceil_mode=True: the number of windows along
\* an axis of length n, and the positions of window i (the last one may be cut)
PoolLen(n) == (n + 1) \div 2
Window(i, n) == IF 2 * i <= n THEN <<2 * i - 1, 2 * i>> ELSE <<2 * i - 1>>

SetMax(S) == CHOOSE x \in S : \A y \in S : x >= y

\* F.max_pool2d(x, kernel_size=2, stride=2, padding=0, ceil_mode=True)
max_pool2d(v) ==
    [k \in DOMAIN v |-> [i \in 1..PoolLen(Rows(v)) |-> [j \in 1..PoolLen(Cols(v)) |->
        LET rs == Window(i, Rows(v))
            cs == Window(j, Cols(v))
        IN  SetMax({v[k][rs[a]][cs[b]] : a \in DOMAIN rs, b \in DOMAIN cs})]]]

\* F.avg_pool2d(x, kernel_size=2, stride=2, padding=0, ceil_mode=True), scaled by 4:
\* a window cut at the border is averaged over the entries it holds
avg_pool2d(v) ==
    [k \in DOMAIN v |-> [i \in 1..PoolLen(Rows(v)) |-> [j \in 1..PoolLen(Cols(v)) |->
        LET rs == Window(i, Rows(v))
            cs == Window(j, Cols(v))
        IN  SumSeq([a \in DOMAIN rs |-> SumSeq([b \in DOMAIN cs |-> v[k][rs[a]][cs[b]]])])
                * (4 \div (Len(rs) * Len(cs)))]]]

\* nn.functional.interpolate(m, size=[u, w], mode='nearest'): output position d
\* (from 0) reads the source position floor(d * I / O)
interpolate_nearest(v, u, w) ==
    [k \in DOMAIN v |-> [r \in 1..u |-> [c \in 1..w |->
        v[k][Min2(((r - 1) * Rows(v)) \div u, Rows(v) - 1) + 1]
            [Min2(((c - 1) * Cols(v)) \div w, Cols(v) - 1) + 1]]]]

\* faulty variant: the plain max pooling of line 508 alone
_magnitude_pool2d_max(v, pos_max) ==
    interpolate_nearest(max_pool2d(v), Rows(v), Cols(v))

\* lines 502-520
_magnitude_pool2d(v, pos_max) ==
    LET p1 == max_pool2d(v)
        p2 == MapT(max_pool2d(MapT(v, LAMBDA e : -e)), LAMBDA e : -e)
        m  == [k \in DOMAIN p1 |-> [i \in DOMAIN p1[k] |-> [j \in DOMAIN p1[k][i] |->
                 IF p1[k][i][j] + p2[k][i][j] >= 0 THEN p1[k][i][j]
                 ELSE IF pos_max THEN 0 ELSE p2[k][i][j]]]]
    IN  interpolate_nearest(m, Rows(v), Cols(v))

\* the inputs of the pooling: one-channel tensors of these heights and widths
PoolVals   == {-2, -1, 1, 2}
PoolShapes == {<<1, 1>>, <<1, 2>>, <<3, 1>>, <<2, 2>>, <<1, 4>>, <<1, 5>>, <<2, 3>>, <<3, 2>>}
PoolInputs == UNION {[1..1 -> [1..sh[1] -> [1..sh[2] -> PoolVals]]] : sh \in PoolShapes}

\* a call self._magnitude_pool2d(x, kernel_size=2, stride=2, padding=0, pos_max=pos_max)
MagnitudePool ==
    /\ ~pool.done
    /\ pool.x /= <<>>
    /\ pool' = [pool EXCEPT !.m = _magnitude_pool2d(pool.x, pool.pos_max), !.done = TRUE]
    /\ UNCHANGED fcvars
    /\ UNCHANGED cbvars

\* lines 561-570
PooledGradients(grad_pooling, g) ==
    IF grad_pooling = "avg"
    THEN Leaf(g.den * 4, interpolate_nearest(avg_pool2d(g.v), Rows(g.v), Cols(g.v)))
    ELSE IF grad_pooling = "max"
    THEN Leaf(g.den, interpolate_nearest(max_pool2d(g.v), Rows(g.v), Cols(g.v)))
    ELSE IF grad_pooling = "mag"
    THEN Leaf(g.den, _magnitude_pool2d(g.v, FALSE))
    ELSE g

\* the sum of the entries of one channel
ChannelSum(vk) == SumSeq([r \in DOMAIN vk |-> SumSeq(vk[r])])

\* lines 602-632: the variant's saliency_map
VariantMap(method, g, a) ==
    IF method = "V0" THEN a
    ELSE IF method = "V5" THEN g
    ELSE IF ~IsLeaf(g)
    THEN IF method = "V6" THEN [op |-> "sign", x |-> g]
         ELSE [op |-> method, g |-> g, a |-> a]
    ELSE IF method = "V1"
    THEN Leaf(a.den, [k \in DOMAIN a.v |-> [r \in DOMAIN a.v[k] |-> [c \in DOMAIN a.v[k][r] |->
            Sign(ChannelSum(g.v[k])) * a.v[k][r][c]]]])
    ELSE IF method = "V2"
    THEN Leaf(g.den * a.den * Rows(g.v) * Cols(g.v),
              [k \in DOMAIN a.v |-> [r \in DOMAIN a.v[k] |-> [c \in DOMAIN a.v[k][r] |->
                  ChannelSum(g.v[k]) * a.v[k][r][c]]]])
    ELSE IF method = "V3"
    THEN Leaf(a.den, [k \in DOMAIN a.v |-> [r \in DOMAIN a.v[k] |-> [c \in DOMAIN a.v[k][r] |->
            Sign(g.v[k][r][c]) * a.v[k][r][c]]]])
    ELSE IF method = "V4"
    THEN Leaf(g.den * a.den,
              [k \in DOMAIN a.v |-> [r \in DOMAIN a.v[k] |-> [c \in DOMAIN a.v[k][r] |->
                  g.v[k][r][c] * a.v[k][r][c]]]])
    ELSE Leaf(1, MapT(g.v, LAMBDA e : Sign(e)))

\* lines 649-661: rectification, the estimator self.getSmap and the normalizer
\* self.getNorm chosen at lines 456-460
FinalMap(pos_neg_map, x) ==
    IF ~pos_neg_map
    THEN [op |-> "GammaNorm2D", x |-> [op |-> "SMOEScaleMap", x |-> Relu(x)]]
    ELSE [op |-> "Normalize2D",
          x |-> [op |-> "sub", a |-> [op |-> "SMOEScaleMap", x |-> Relu(x)],
                               b |-> [op |-> "SMOEScaleMap", x |-> Relu(Neg(x))]]]

\* lines 549-663: the saliency map of one layer from the tensors G and A held by
\* its gradient hook and its activation hook
LayerMap(oc, G, A, invert) ==
    LET g1 == IF oc.backward THEN PooledGradients(oc.grad_pooling, Leaf(1, G)) ELSE Unbound
        a1 == IF oc.forward THEN Relu(Leaf(1, A)) ELSE Unbound
        g2 == IF invert THEN Neg(g1) ELSE g1
        g3 == IF oc.use_gpp /\ oc.backward /\ oc.forward
              THEN [op |-> "gpp", g |-> g2, a |-> a1]     \* lines 589-600
              ELSE g2
    IN  FinalMap(oc.pos_neg_map, VariantMap(oc.method, g3, a1))

\* lines 547, 652/661 and 663-665: what a returned call hands back.  The first
\* component is the Python list saliency_maps, one tensor per layer, each viewed
\* as (b, u, v) with u, v the height and width of that layer's captured tensor;
\* the second is the logit tensor of the call's own forward pass (line 540)
ReturnValue(c) ==
    [kind   |-> "list",
     shapes |-> [k \in DOMAIN call[c].saliency_maps |->
                   LET m == call[c].saliency_maps[k]
                       t == IF m.activations /= 0 THEN passes[m.activations].activations
                            ELSE passes[m.gradients].gradients
                   IN  <<call[c].b, Rows(t), Cols(t)>>],
     logit  |-> call[c].pass]

(***************************************************************************)
(* One caller, one orchestrator, one classifier.                           *)
(***************************************************************************)
\* the orchestrators not constructed yet
Unbuilt == {o \in DOMAIN orch : orch[o].state = "none"}

Init ==
    /\ orch = [o \in {1} |-> NoOrch]
    /\ observers = [m \in {1} |-> <<>>]
    /\ call = [c \in {1} |-> IdleCall]
    /\ passes = <<>>
    /\ combiner = NoCombiner
    /\ runs = <<>>
    /\ pool = NoPool

Next ==
    \/ \E o \in Unbuilt, m \in DOMAIN observers, layers \in LayerLists,
          method \in MethodArgs, use_gpp \in BOOLEAN, grad_pooling \in GradPoolings,
          pos_neg_map \in BOOLEAN :
            FastCAM_init(o, m, layers, method, use_gpp, grad_pooling, pos_neg_map)
    \/ \E c \in DOMAIN call, o \in DOMAIN orch, b \in 1..MaxBatch, invert \in BOOLEAN :
            Call_forward(c, o, b, invert, UnitPass, 0)
    \/ \E c \in DOMAIN call : Call_backward(c)
    \/ \E c \in DOMAIN call : Call_layer(c)
    \/ \E c \in DOMAIN call : Call_return(c)

Spec == Init /\ [][Next]_vars

(***************************************************************************)
(* Two callers, two orchestrators, two classifier replicas: calls may      *)
(* overlap.  A caller's steps are the classifier passes and the reads of   *)
(* the hooks' slots.                                                       *)
(***************************************************************************)
RaceMethods == {"V0", "V2", "V5"}
RaceLayerLists == {s \in SeqsUpTo(ModuleNames, MaxLayers) : Len(s) = 1}

InitRace ==
    /\ orch = [o \in {1, 2} |-> NoOrch]
    /\ observers = [m \in {1, 2} |-> <<>>]
    /\ call = [c \in {1, 2} |-> IdleCall]
    /\ passes = <<>>
    /\ combiner = NoCombiner
    /\ runs = <<>>
    /\ pool = NoPool

NextRace ==
    \/ \E o \in Unbuilt, m \in DOMAIN observers, layers \in RaceLayerLists,
          method \in RaceMethods :
            FastCAM_init(o, m, layers, method, FALSE, "None", FALSE)
    \/ \E c \in DOMAIN call, o \in DOMAIN orch : Call_forward(c, o, 1, FALSE, UnitPass, 0)
    \/ \E c \in DOMAIN call : Call_backward(c)
    \/ \E c \in DOMAIN call : Call_layer(c)
    \/ \E c \in DOMAIN call : Call_return(c)

SpecRace == InitRace /\ [][NextRace]_vars

(***************************************************************************)
(* A combiner is constructed; a list of maps is combined; then the same    *)
(* list with some of its maps negated is combined.                        *)
(***************************************************************************)
InitCombiner ==
    /\ orch = [o \in {1} |-> NoOrch]
    /\ observers = [m \in {1} |-> <<>>]
    /\ call = [c \in {1} |-> IdleCall]
    /\ passes = <<>>
    /\ combiner = NoCombiner
    /\ runs = <<>>
    /\ pool = NoPool

NextCombiner ==
    \/ /\ combiner.state = "none"
       /\ \E output_size \in OutputSizes, map_num \in 0..MaxMapNum, weights \in WeightArgs,
             magnitude \in BOOLEAN, do_relu \in BOOLEAN :
               CombineSaliencyMaps_init(output_size, map_num, weights, magnitude, do_relu)
    \/ /\ combiner.state = "alive" /\ runs = <<>>
       /\ \E smaps \in SmapLists : CombineSaliencyMaps_forward(smaps)
    \/ /\ Len(runs) = 1
       /\ \E S \in SUBSET DOMAIN runs[1].smaps :
            CombineSaliencyMaps_forward(Negated(runs[1].smaps, S))

SpecCombiner == InitCombiner /\ [][NextCombiner]_vars

(***************************************************************************)
(* Two calls of one orchestrator, one after the other, on inputs for which *)
(* the classifier gives the tensors of AllPasses.                         *)
(***************************************************************************)
InitData ==
    /\ orch = [o \in {1} |-> NoOrch]
    /\ observers = [m \in {1} |-> <<>>]
    /\ call = [c \in {1, 2} |-> IdleCall]
    /\ passes = <<>>
    /\ combiner = NoCombiner
    /\ runs = <<>>
    /\ pool = NoPool

NextData ==
    \/ \E o \in Unbuilt, layers \in RaceLayerLists, method \in Methods,
          use_gpp \in BOOLEAN, grad_pooling \in GradPoolings, pos_neg_map \in BOOLEAN :
            FastCAM_init(o, 1, layers, method, use_gpp, grad_pooling, pos_neg_map)
    \/ \E c \in DOMAIN call, t \in AllPasses :
            /\ call[c].pc = "idle"
            /\ \A d \in DOMAIN call : (d < c) = (call[d].pc = "returned")
            /\ Call_forward(c, 1, 1, FALSE, t, 0)
    \/ \E c \in DOMAIN call : Call_backward(c)
    \/ \E c \in DOMAIN call : Call_layer(c)
    \/ \E c \in DOMAIN call : Call_return(c)

SpecData == InitData /\ [][NextData]_vars

(***************************************************************************)
(* Orchestrators are constructed on one shared classifier, called and      *)
(* discarded, in any order.                                                *)
(***************************************************************************)
InitLife ==
    /\ orch = [o \in {1, 2} |-> NoOrch]
    /\ observers = [m \in {1} |-> <<>>]
    /\ call = [c \in {1} |-> IdleCall]
    /\ passes = <<>>
    /\ combiner = NoCombiner
    /\ runs = <<>>
    /\ pool = NoPool

NextLife ==
    \/ \E o \in Unbuilt, layers \in SeqsUpTo(ModuleNames, MaxLayers), method \in RaceMethods :
            /\ \A q \in DOMAIN orch : q < o => orch[q].state /= "none"
            /\ FastCAM_init(o, 1, layers, method, FALSE, "None", FALSE)
    \/ \E c \in DOMAIN call, o \in DOMAIN orch : Call_forward(c, o, 1, FALSE, UnitPass, 0)
    \/ \E c \in DOMAIN call : Call_backward(c)
    \/ \E c \in DOMAIN call : Call_layer(c)
    \/ \E c \in DOMAIN call : Call_return(c)
    \/ \E o \in DOMAIN orch : FastCAM_discard(o)

SpecLife == InitLife /\ [][NextLife]_vars

(***************************************************************************)
(* One call of _magnitude_pool2d on a tensor of PoolInputs.                *)
(***************************************************************************)
InitPool ==
    /\ orch = [o \in {1} |-> NoOrch]
    /\ observers = [m \in {1} |-> <<>>]
    /\ call = [c \in {1} |-> IdleCall]
    /\ passes = <<>>
    /\ combiner = NoCombiner
    /\ runs = <<>>
    /\ pool \in {[NoPool EXCEPT !.x = x, !.pos_max = pm] : x \in PoolInputs, pm \in BOOLEAN}

NextPool == MagnitudePool

SpecPool == InitPool /\ [][NextPool]_vars

(***************************************************************************)
(* Calls of one orchestrator, one after the other, with and without an     *)
(* explicit class index, on inputs for which the classifier gives the      *)
(* logits of LogitVecs.                                                    *)
(***************************************************************************)
InitOrder ==
    /\ orch = [o \in {1} |-> NoOrch]
    /\ observers = [m \in {1} |-> <<>>]
    /\ call = [c \in {1} |-> IdleCall]
    /\ passes = <<>>
    /\ combiner = NoCombiner
    /\ runs = <<>>
    /\ pool = NoPool

NextOrder ==
    \/ \E o \in Unbuilt, layers \in SeqsUpTo(ModuleNames, MaxLayers), method \in Methods :
            FastCAM_init(o, 1, layers, method, FALSE, "None", FALSE)
    \/ \E c \in DOMAIN call, b \in 1..MaxBatch, t \in OrderPasses, class_idx \in ClassArgs :
            Call_forward(c, 1, b, FALSE, t, class_idx)
    \/ \E c \in DOMAIN call : Call_backward(c)
    \/ \E c \in DOMAIN call : Call_layer(c)
    \/ \E c \in DOMAIN call : Call_return(c)

SpecOrder == InitOrder /\ [][NextOrder]_vars

(***************************************************************************)
(* Claims                                                                  *)
(***************************************************************************)
MethodOf(c) == orch[call[c].o].method

\* C1: a call with an input of batch size greater than 1 never gets past line 545:
\* for every variant and option setting it raises (the TypeError of the call of
\* _forward_bsize_N) and appends or returns no saliency map.
C1_BatchFails ==
    \A c \in DOMAIN call :
        call[c].b > 1 =>
            /\ call[c].pc \in {"forward_done", "raised"}
            /\ call[c].pc = "raised" => call[c].err = "TypeError"
            /\ call[c].saliency_maps = <<>>

C1_Witness ==
    \E c \in DOMAIN call :
        /\ call[c].b > 1
        /\ call[c].pc = "raised"
        /\ MethodOf(c) \in Methods

\* C2 (as claimed): no orchestrator with a method string outside V0..V6 is ever
\* constructed, and no call is ever started on one.
C2_UnsupportedRejected ==
    /\ \A o \in DOMAIN orch : orch[o].state = "alive" => orch[o].method \in Methods
    /\ \A c \in DOMAIN call : call[c].pc /= "idle" => MethodOf(c) \in Methods

ObserverIdx(o, dir) ==
    LET obs == observers[orch[o].model]
    IN  {k \in DOMAIN obs : obs[k].owner = o /\ obs[k].dir = dir}

\* one hook per layer, in layer order, each registered exactly once
OneHookPerLayer(o, hooks, dir) ==
    /\ Len(hooks) = Len(orch[o].layers)
    /\ \A i \in DOMAIN hooks : hooks[i].layer = orch[o].layers[i]
    /\ \A i \in DOMAIN hooks :
          Cardinality({k \in ObserverIdx(o, dir) :
                          observers[orch[o].model][k].idx = i}) = 1
    /\ Cardinality(ObserverIdx(o, dir)) = Len(hooks)

\* C4: in every state after construction, also during and after calls, a V0
\* orchestrator has backward capture off and no gradient hook, a V5 orchestrator
\* has forward capture off and no activation hook, V1-V4 and V6 have both on, and
\* each active direction has exactly one hook per layer in layer order.
C4_Capabilities ==
    \A o \in DOMAIN orch :
        (orch[o].state = "alive" /\ orch[o].method \in Methods) =>
            /\ orch[o].backward = (orch[o].method /= "V0")
            /\ orch[o].forward = (orch[o].method /= "V5")
            /\ IF orch[o].method = "V0"
               THEN orch[o].gradient_hooks = <<>> /\ ObserverIdx(o, "backward") = {}
               ELSE OneHookPerLayer(o, orch[o].gradient_hooks, "backward")
            /\ IF orch[o].method = "V5"
               THEN orch[o].activation_hooks = <<>> /\ ObserverIdx(o, "forward") = {}
               ELSE OneHookPerLayer(o, orch[o].activation_hooks, "forward")

C4_Witness ==
    \E c \in DOMAIN call :
        /\ call[c].pc = "returned"
        /\ MethodOf(c) = "V0"
        /\ Len(orch[call[c].o].layers) = 2
        /\ npass = 2

\* C10: a call during which no other call was in progress on the same classifier
\* (none on the same orchestrator, none on another orchestrator of that classifier)
\* builds every map from the tensors of its own pass; overlapping calls on one
\* orchestrator can read the other call's tensors (C10_Witness).
C10_OwnTensors ==
    \A c \in DOMAIN call :
        (call[c].alone /\ call[c].pc \in {"layers", "returned"}) =>
            \A k \in DOMAIN call[c].saliency_maps :
                call[c].saliency_maps[k] =
                    [gradients   |-> IF orch[call[c].o].backward THEN call[c].pass ELSE 0,
                     activations |-> IF orch[call[c].o].forward THEN call[c].pass ELSE 0]

C10_Witness ==
    \E c \in DOMAIN call, d \in DOMAIN call :
        /\ c /= d /\ call[c].o = call[d].o
        /\ call[c].pc = "returned"
        /\ call[c].pass < call[d].pass
        /\ \E k \in DOMAIN call[c].saliency_maps :
              call[c].saliency_maps[k].activations = call[d].pass

\* a constructor call whose output_size and map_num pass the assertions of
\* lines 261-267
SizesValid == combiner.output_size[1] > 0 /\ combiner.output_size[2] > 0
                 /\ combiner.map_num > 0

\* the combiner that the explicit weight list gives
ListCombiner(ws) ==
    [combiner EXCEPT !.state = "alive", !.err = "",
                     !.weights_arg = [type |-> "list", val |-> ws],
                     !.weights = ws, !.weight_sum = SumSeq(ws)]

\* C6 (as claimed): a combiner given a scalar weight w (here w > 0) for N maps is
\* constructed and combines every list of N maps to the result the weight list
\* [w]*N gives.
C6_ScalarBroadcast ==
    (/\ combiner.state /= "none" /\ SizesValid
     /\ combiner.weights_arg.type = "float" /\ combiner.weights_arg.val[1] > 0) =>
        /\ combiner.state = "alive"
        /\ \A k \in DOMAIN runs :
              LET ws == [i \in 1..combiner.map_num |-> combiner.weights_arg.val[1]]
                  r  == forward(ListCombiner(ws), runs[k].smaps)
              IN  runs[k].err = r.err /\ runs[k].cm = r.cm /\ runs[k].ww = r.ww

\* a map resized to the combiner's output size, as rationals
ResizedRat(m) ==
    LET w == Resize2D(m, combiner.output_size)
    IN  [r \in DOMAIN w |-> [c \in DOMAIN w[r] |->
            Rat(w[r][c], ResizeScale(combiner.output_size))]]

\* C7 (as claimed): a combiner with map_num = 1 and weights = [1.0], magnitude and
\* rectification off, is constructed and returns every single map resized.
C7_Identity ==
    (/\ combiner.state /= "none" /\ SizesValid /\ combiner.map_num = 1
     /\ combiner.weights_arg = [type |-> "list", val |-> <<1>>]
     /\ ~combiner.magnitude /\ ~combiner.do_relu) =>
        /\ combiner.state = "alive"
        /\ \A k \in DOMAIN runs :
              Len(runs[k].smaps) = 1 =>
                  runs[k].err = "" /\ runs[k].cm = ResizedRat(runs[k].smaps[1])

\* C8 (as claimed): a constructed combiner has only non-negative weights and a
\* nonzero weight sum, so no combine call divides by zero.
C8_WeightsSane ==
    combiner.state = "alive" =>
        /\ \A i \in DOMAIN combiner.weights : combiner.weights[i] >= 0
        /\ combiner.weight_sum /= 0

\* C9: with magnitude = TRUE and any weights, combining a list of maps and
\* combining the list with any subset of its maps negated give the same combined
\* map and the same stacked resized maps (entry by entry the same float, inf and
\* nan of a zero weight sum included).
C9_SignInvariance ==
    (/\ combiner.state = "alive" /\ combiner.magnitude
     /\ Len(runs) = 2
     /\ \E S \in SUBSET DOMAIN runs[1].smaps :
           runs[2].smaps = Negated(runs[1].smaps, S)) =>
        /\ runs[2].err = runs[1].err
        /\ runs[2].cm = runs[1].cm
        /\ runs[2].ww = runs[1].ww

C9_Witness ==
    /\ combiner.state = "alive" /\ combiner.magnitude
    /\ combiner.weights = <<2, -1>>
    /\ combiner.output_size = <<2, 4>>
    /\ Len(runs) = 2
    /\ runs[1].err = "" /\ runs[2].err = ""
    /\ runs[2].smaps = Negated(runs[1].smaps, {2})
    /\ Height(runs[1].smaps[1]) = 1 /\ Width(runs[1].smaps[1]) = 2
    /\ runs[1].smaps[1][1][1] /= runs[1].smaps[1][1][2]
    /\ runs[2].cm = runs[1].cm
    /\ \E r \in DOMAIN runs[2].cm : \E c \in DOMAIN runs[2].cm[r] : runs[2].cm[r][c][1] /= 0

\* the saliency map that call c appended for its k-th layer
MapValue(c, k) ==
    LET m == call[c].saliency_maps[k]
    IN  LayerMap(orch[call[c].o],
                 IF m.gradients = 0 THEN <<>> ELSE passes[m.gradients].gradients,
                 IF m.activations = 0 THEN <<>> ELSE passes[m.activations].activations,
                 call[c].invert)

\* C5: two finished calls (invert not requested) of a V0 orchestrator whose passes
\* gave the same activations, whatever the gradients, have returned the same
\* per-layer maps; so have two calls of a V5 orchestrator whose passes gave the
\* same gradients, whatever the activations; for every grad_pooling, use_gpp and
\* pos_neg_map.
C5_DisjointSources ==
    (/\ Finished(1) /\ Finished(2) /\ call[1].pc /= "idle" /\ call[2].pc /= "idle"
     /\ call[1].o = call[2].o /\ ~call[1].invert /\ ~call[2].invert
     /\ \/ /\ MethodOf(1) = "V0"
           /\ passes[call[1].pass].activations = passes[call[2].pass].activations
        \/ /\ MethodOf(1) = "V5"
           /\ passes[call[1].pass].gradients = passes[call[2].pass].gradients) =>
        /\ call[1].pc = "returned" /\ call[2].pc = "returned"
        /\ Len(call[1].saliency_maps) = Len(call[2].saliency_maps)
        /\ \A k \in DOMAIN call[1].saliency_maps : MapValue(1, k) = MapValue(2, k)

C5_Witness ==
    /\ call[1].pc = "returned" /\ call[2].pc = "returned"
    /\ MethodOf(1) = "V5" /\ orch[1].use_gpp /\ orch[1].grad_pooling = "mag"
    /\ passes[1].gradients = passes[2].gradients
    /\ passes[1].activations /= passes[2].activations
    /\ Len(call[1].saliency_maps) = 1
    /\ MapValue(1, 1) = MapValue(2, 1)

\* the observers on classifier m that belong to an orchestrator still alive
LiveObservers(m) ==
    {k \in DOMAIN observers[m] : orch[observers[m][k].owner].state = "alive"}

\* C11 (as claimed): on every classifier, in every state, the number of observers
\* registered equals the number that belong to orchestrators still alive: the
\* observers of a discarded orchestrator are gone.
C11_ObserversReleased ==
    \A m \in DOMAIN observers : Len(observers[m]) = Cardinality(LiveObservers(m))

\* C12 (as claimed): a returned single-example call of a V2 orchestrator with
\* grad_pooling None, pos_neg_map off and a non-empty layer list hands back one
\* combined map, a tensor of shape batch x 224 x 224 whatever the layers'
\* resolutions, together with the logits of its forward pass.
C12_EndToEnd ==
    \A c \in DOMAIN call :
        (/\ call[c].pc = "returned" /\ call[c].b = 1
         /\ MethodOf(c) = "V2" /\ orch[call[c].o].grad_pooling = "None"
         /\ ~orch[call[c].o].pos_neg_map /\ Len(orch[call[c].o].layers) > 0) =>
            /\ ReturnValue(c).kind = "tensor"
            /\ ReturnValue(c).shapes = <<call[c].b, 224, 224>>
            /\ ReturnValue(c).logit = call[c].pass

\* the entries of x in channel k that share the 2x2 window (cut at the border) of
\* position (r, c)
WindowOf(x, k, r, c) ==
    {x[k][r2][c2] : r2 \in {q \in DOMAIN x[k] : (q - 1) \div 2 = (r - 1) \div 2},
                    c2 \in {q \in DOMAIN x[k][1] : (q - 1) \div 2 = (c - 1) \div 2}}

\* C13: with pos_max = FALSE the result of _magnitude_pool2d has the height and
\* width of its input, and every position holds an entry of its own 2x2 window
\* with the largest absolute value of that window and its own sign; when the
\* window holds that absolute value with both signs, the positive entry is taken.
C13_MagnitudePool ==
    (pool.done /\ ~pool.pos_max) =>
        /\ DOMAIN pool.m = DOMAIN pool.x
        /\ \A k \in DOMAIN pool.x :
              /\ DOMAIN pool.m[k] = DOMAIN pool.x[k]
              /\ \A r \in DOMAIN pool.x[k] :
                    /\ DOMAIN pool.m[k][r] = DOMAIN pool.x[k][r]
                    /\ \A c \in DOMAIN pool.x[k][r] :
                          LET w == WindowOf(pool.x, k, r, c)
                              e == pool.m[k][r][c]
                          IN  /\ e \in w
                              /\ \A y \in w : Abs(e) >= Abs(y)
                              /\ e < 0 => -e \notin w

\* an input of odd width with a window whose dominant entry is negative and a
\* window, cut at the border, that holds its largest absolute value with both
\* signs
C13_Witness ==
    /\ pool.done /\ ~pool.pos_max
    /\ pool.x[1] = << <<-2, 1, 2>>, <<1, -1, -2>> >>
    /\ pool.m[1] = << <<-2, -2, 2>>, <<-2, -2, 2>> >>

\* the positions in the operations of call c that hold operation name
OpsOf(c, name) == {n \in DOMAIN call[c].ops : call[c].ops[n].op = name}

\* C14: in every single-example call, the classifier's forward pass runs exactly
\* once and before every other pass and read, with gradient tracking set to the
\* backward flag; with backward capture, a call that has got past the score
\* selection (a class index in range) has run exactly one zero_grad immediately
\* followed by exactly one backward from the logit of the given class index, or of
\* a top-predicted class if none was given, and both precede every read of a
\* hook; without backward capture (V0) tracking is off and no zero_grad and no
\* backward is ever run.
C14_PassOrder ==
    \A c \in DOMAIN call :
        (call[c].pc /= "idle" /\ call[c].b = 1) =>
            LET ops   == call[c].ops
                oc    == orch[call[c].o]
                past  == call[c].i >= 1
                logit == passes[call[c].pass].logit
                reads == OpsOf(c, "read_gradients") \cup OpsOf(c, "read_activations")
            IN  /\ OpsOf(c, "forward") = {3}
                /\ ops[3].arg = call[c].pass
                /\ ops[1] = [op |-> "set_grad_enabled", arg |-> IF oc.backward THEN 1 ELSE 0]
                /\ ops[2].op = "eval"
                /\ ~past => (reads = {} /\ OpsOf(c, "zero_grad") = {}
                                        /\ OpsOf(c, "backward") = {})
                /\ (past /\ oc.backward) =>
                      /\ OpsOf(c, "zero_grad") = {4}
                      /\ OpsOf(c, "backward") = {5}
                      /\ IF call[c].class_idx /= 0
                         THEN ops[5].arg = call[c].class_idx
                         ELSE \A j \in DOMAIN logit : logit[ops[5].arg] >= logit[j]
                      /\ \A n \in reads : n > 5
                /\ ~oc.backward =>
                      /\ OpsOf(c, "zero_grad") = {} /\ OpsOf(c, "backward") = {}
                      /\ \A n \in reads : n > 3

C14_Witness ==
    \E c \in DOMAIN call :
        /\ call[c].pc = "returned" /\ call[c].b = 1 /\ call[c].class_idx = 0
        /\ MethodOf(c) = "V2" /\ Len(orch[call[c].o].layers) = 2
        /\ passes[call[c].pass].logit = <<1, 2>>
        /\ call[c].ops[4].op = "zero_grad"
        /\ call[c].ops[5] = [op |-> "backward", arg |-> 2]
        /\ Len(call[c].ops) = 9

====
